---- MODULE Spec2Model ----
(***************************************************************************)
(* DefaultJenkinsInfoProvider (plugins/jenkins-backend, service/           *)
(* jenkinsInfoProvider.ts): resolution of the Jenkins instance and job of   *)
(* a catalog entity from its annotation and the 'jenkins' configuration.    *)
(*                                                                         *)
(* Strings are sequences of one-character strings, so that indexOf and     *)
(* substring are computed and not assumed.  The JavaScript value undefined  *)
(* is the one-element sequence undefined, which no string of the model     *)
(* equals.  A configuration node is a function from its keys to values: a  *)
(* key outside its domain is a key the configuration does not set.         *)
(***************************************************************************)
EXTENDS Integers, Sequences, FiniteSets, TLC

VARIABLES catalog, config, pc, opts, pending, response, result, probe, catalogReads

vars == <<catalog, config, pc, opts, pending, response, result, probe, catalogReads>>

(***************************************************************************)
(* Bounds of the model.                                                    *)
(***************************************************************************)
\* longest annotation value drawn from Chars
MaxLen == 2
\* longest 'jenkins.instances' array
MaxInstances == 3
\* calls of getInstance in flight together (SpecConcurrent)
NumCalls == 2

(***************************************************************************)
(* Strings.                                                                *)
(***************************************************************************)
undefined == <<"undefined">>

Chars == {"a", ":"}

Strs(n) == UNION {[1..k -> Chars] : k \in 0..n}

\* JavaScript truthiness of a value of type string | undefined
Truthy(s) == s # undefined /\ s # <<>>

RECURSIVE indexOfFrom(_, _, _)
indexOfFrom(s, ch, i) ==
  IF i > Len(s) THEN -1
  ELSE IF s[i] = ch THEN i - 1
  ELSE indexOfFrom(s, ch, i + 1)

\* String.prototype.indexOf: 0-based position of the first ch, or -1
indexOf(s, ch) == indexOfFrom(s, ch, 1)

RECURSIVE lastIndexOfFrom(_, _, _)
lastIndexOfFrom(s, ch, i) ==
  IF i < 1 THEN -1
  ELSE IF s[i] = ch THEN i - 1
  ELSE lastIndexOfFrom(s, ch, i - 1)

\* String.prototype.substring(from, to): 0-based, to exclusive
substring(s, from, to) == SubSeq(s, from + 1, to)

DEFAULT_JENKINS_NAME == <<"d", "e", "f", "a", "u", "l", "t">>

OLD_JENKINS_ANNOTATION == "jenkins.io/github-folder"

NEW_JENKINS_ANNOTATION == "jenkins.io/job-slug"

(***************************************************************************)
(* Errors and results.                                                     *)
(***************************************************************************)
Err(kind, key, name, ref) == [kind |-> kind, key |-> key, name |-> name, ref |-> ref]

NoError == Err("none", "", undefined, "")

NoInfo == [baseUrl |-> undefined, headers |-> undefined, jobName |-> undefined]

NoProbe ==
  [annotation |-> undefined, jenkinsName |-> undefined, jobName |-> undefined,
   path |-> "none", at |-> -1, configReads |-> 0, nameReads |-> 0]

(***************************************************************************)
(* The configuration reader (@backstage/config), by its contract.          *)
(***************************************************************************)
has(node, key) == key \in DOMAIN node

\* getConfig(key): the subtree, fails when the key is not set
getConfig(node, key) ==
  IF has(node, key) THEN [ok |-> TRUE, value |-> node[key]]
  ELSE [ok |-> FALSE, value |-> undefined]

\* getConfigArray(key): the sequence of nodes, empty when the key is not set
getConfigArray(node, key) == IF has(node, key) THEN node[key] ELSE <<>>

\* getString(key): the string, fails when the key is not set or is empty
getString(node, key) ==
  IF has(node, key) /\ node[key] # <<>> THEN [ok |-> TRUE, value |-> node[key]]
  ELSE [ok |-> FALSE, value |-> undefined]

\* getOptionalString(key): the string, or undefined when the key is not set
getOptionalString(node, key) == IF has(node, key) THEN node[key] ELSE undefined

(***************************************************************************)
(* DefaultJenkinsInfoProvider.getInstanceConfig.                           *)
(***************************************************************************)
Min(S) == CHOOSE i \in S : \A j \in S : i <= j

Max(S) == CHOOSE i \in S : \A j \in S : i >= j

\* outcome of getInstanceConfig: the settings node is the 'jenkins' node
\* (at = 0) or entry at of 'jenkins.instances' (at >= 1); at = -1 when it threw
Settings(path, at, configReads, nameReads) ==
  [ok |-> TRUE, error |-> NoError, path |-> path, at |-> at,
   configReads |-> configReads, nameReads |-> nameReads]

Thrown(error, path, configReads, nameReads) ==
  [ok |-> FALSE, error |-> error, path |-> path, at |-> -1,
   configReads |-> configReads, nameReads |-> nameReads]

\* .filter(c => c.getString('name') === name): the callback runs on the
\* entries in array order and its first failing getString ends the filter
filterByName(instances, name) ==
  LET unnamed == {i \in 1..Len(instances) : ~getString(instances[i], "name").ok}
      threw == unnamed # {}
      nameReads == IF threw THEN Min(unnamed) ELSE Len(instances)
  IN [threw |-> threw,
      nameReads |-> nameReads,
      matches |-> {i \in 1..nameReads : getString(instances[i], "name").value = name}]

\* a plausible slip: the last element of the filtered array
LastOfFiltered(matches) == IF matches = {} THEN 0 ELSE Max(matches)

\* [0] of the filtered array: the first match in array order, 0 for undefined
FirstOfFiltered(matches) == IF matches = {} THEN 0 ELSE Min(matches)

\* a plausible slip: only undefined selects the default lookup
IsDefaultLookupStrict(jenkinsName) == jenkinsName = undefined

\* !jenkinsName || jenkinsName === DEFAULT_JENKINS_NAME
IsDefaultLookup(jenkinsName) ==
  ~Truthy(jenkinsName) \/ jenkinsName = DEFAULT_JENKINS_NAME

\* a plausible slip: apiKey left out of the check
FlatIncompleteTwo(jenkinsConfig) ==
  \/ ~Truthy(getOptionalString(jenkinsConfig, "baseUrl"))
  \/ ~Truthy(getOptionalString(jenkinsConfig, "username"))

\* !baseUrl || !username || !apiKey
FlatIncomplete(jenkinsConfig) ==
  \/ ~Truthy(getOptionalString(jenkinsConfig, "baseUrl"))
  \/ ~Truthy(getOptionalString(jenkinsConfig, "username"))
  \/ ~Truthy(getOptionalString(jenkinsConfig, "apiKey"))

\* the branch taken when no name is given or the name is "default"
getDefaultInstance(jenkinsConfig) ==
  LET f == filterByName(getConfigArray(jenkinsConfig, "instances"), DEFAULT_JENKINS_NAME)
      namedInstanceConfig == FirstOfFiltered(f.matches)
  IN IF f.threw
     THEN Thrown(Err("ConfigFieldMissing", "name", undefined, ""),
                 "default", 2 + f.nameReads, f.nameReads)
     ELSE IF namedInstanceConfig # 0
     THEN Settings("default", namedInstanceConfig, 2 + f.nameReads, f.nameReads)
     ELSE IF FlatIncomplete(jenkinsConfig)
     THEN Thrown(Err("NoDefaultInstance", "", undefined, ""),
                 "default", 5 + f.nameReads, f.nameReads)
     ELSE Settings("default", 0, 5 + f.nameReads, f.nameReads)

\* a plausible slip: a name that is not configured falls back to the default
getNamedInstanceFallback(jenkinsName, jenkinsConfig) ==
  LET f == filterByName(getConfigArray(jenkinsConfig, "instances"), jenkinsName)
      namedInstanceConfig == FirstOfFiltered(f.matches)
  IN IF f.threw
     THEN Thrown(Err("ConfigFieldMissing", "name", undefined, ""),
                 "named", 2 + f.nameReads, f.nameReads)
     ELSE IF namedInstanceConfig = 0
     THEN [getDefaultInstance(jenkinsConfig) EXCEPT !.path = "named"]
     ELSE Settings("named", namedInstanceConfig, 2 + f.nameReads, f.nameReads)

\* the branch taken when a name other than "default" is given
getNamedInstance(jenkinsName, jenkinsConfig) ==
  LET f == filterByName(getConfigArray(jenkinsConfig, "instances"), jenkinsName)
      namedInstanceConfig == FirstOfFiltered(f.matches)
  IN IF f.threw
     THEN Thrown(Err("ConfigFieldMissing", "name", undefined, ""),
                 "named", 2 + f.nameReads, f.nameReads)
     ELSE IF namedInstanceConfig = 0
     THEN Thrown(Err("NamedInstanceNotFound", "", jenkinsName, ""),
                 "named", 2 + f.nameReads, f.nameReads)
     ELSE Settings("named", namedInstanceConfig, 2 + f.nameReads, f.nameReads)

getInstanceConfig(jenkinsName, rootConfig) ==
  LET jenkinsConfig == getConfig(rootConfig, "jenkins")
  IN IF ~jenkinsConfig.ok
     THEN Thrown(Err("ConfigFieldMissing", "jenkins", undefined, ""), "none", 1, 0)
     ELSE IF IsDefaultLookup(jenkinsName)
     THEN getDefaultInstance(jenkinsConfig.value)
     ELSE getNamedInstance(jenkinsName, jenkinsConfig.value)

\* the node getInstanceConfig returned
SettingsNode(rootConfig, at) ==
  IF at = 0 THEN rootConfig["jenkins"] ELSE rootConfig["jenkins"]["instances"][at]

(***************************************************************************)
(* DefaultJenkinsInfoProvider.getInstance.                                 *)
(***************************************************************************)
\* entity.metadata.annotations?.[key]
annotationOf(entity, key) ==
  IF key \in DOMAIN entity.annotations THEN entity.annotations[key] ELSE undefined

\* a plausible slip: the current key checked before the legacy key
getEntityAnnotationValueNewFirst(entity) ==
  IF Truthy(annotationOf(entity, NEW_JENKINS_ANNOTATION))
  THEN annotationOf(entity, NEW_JENKINS_ANNOTATION)
  ELSE annotationOf(entity, OLD_JENKINS_ANNOTATION)

\* annotations?.[OLD_JENKINS_ANNOTATION] || annotations?.[NEW_JENKINS_ANNOTATION]
getEntityAnnotationValue(entity) ==
  IF Truthy(annotationOf(entity, OLD_JENKINS_ANNOTATION))
  THEN annotationOf(entity, OLD_JENKINS_ANNOTATION)
  ELSE annotationOf(entity, NEW_JENKINS_ANNOTATION)

\* a plausible slip: the check of the annotation value left out
AnnotationUnchecked(jenkinsAndJobName) == FALSE

\* !jenkinsAndJobName
AnnotationUnusable(jenkinsAndJobName) == ~Truthy(jenkinsAndJobName)

\* a plausible slip: the split at the last colon
splitIndexLast(jenkinsAndJobName) ==
  lastIndexOfFrom(jenkinsAndJobName, ":", Len(jenkinsAndJobName))

\* jenkinsAndJobName.indexOf(':')
splitIndexOf(jenkinsAndJobName) == indexOf(jenkinsAndJobName, ":")

\* the split of the annotation value into jenkinsName and jobName
parseAnnotation(jenkinsAndJobName) ==
  LET splitIndex == splitIndexOf(jenkinsAndJobName)
  IN IF splitIndex = -1
     THEN [jenkinsName |-> undefined, jobName |-> jenkinsAndJobName]
     ELSE [jenkinsName |-> substring(jenkinsAndJobName, 0, splitIndex),
           jobName |-> substring(jenkinsAndJobName, splitIndex + 1,
                                 Len(jenkinsAndJobName))]

\* a plausible slip: apiKey read as an optional string
readSettingsOptionalKey(instanceConfig) ==
  LET baseUrl == getString(instanceConfig, "baseUrl")
      username == getString(instanceConfig, "username")
  IN IF ~baseUrl.ok
     THEN [ok |-> FALSE, key |-> "baseUrl", reads |-> 1, baseUrl |-> undefined,
           username |-> undefined, apiKey |-> undefined]
     ELSE IF ~username.ok
     THEN [ok |-> FALSE, key |-> "username", reads |-> 2, baseUrl |-> undefined,
           username |-> undefined, apiKey |-> undefined]
     ELSE [ok |-> TRUE, key |-> "", reads |-> 3, baseUrl |-> baseUrl.value,
           username |-> username.value,
           apiKey |-> getOptionalString(instanceConfig, "apiKey")]

\* the three getString reads, in order; the first that fails ends the call
readSettings(instanceConfig) ==
  LET baseUrl == getString(instanceConfig, "baseUrl")
      username == getString(instanceConfig, "username")
      apiKey == getString(instanceConfig, "apiKey")
  IN IF ~baseUrl.ok
     THEN [ok |-> FALSE, key |-> "baseUrl", reads |-> 1, baseUrl |-> undefined,
           username |-> undefined, apiKey |-> undefined]
     ELSE IF ~username.ok
     THEN [ok |-> FALSE, key |-> "username", reads |-> 2, baseUrl |-> undefined,
           username |-> undefined, apiKey |-> undefined]
     ELSE IF ~apiKey.ok
     THEN [ok |-> FALSE, key |-> "apiKey", reads |-> 3, baseUrl |-> undefined,
           username |-> undefined, apiKey |-> undefined]
     ELSE [ok |-> TRUE, key |-> "", reads |-> 3, baseUrl |-> baseUrl.value,
           username |-> username.value, apiKey |-> apiKey.value]

\* Buffer.from(`${username}:${apiKey}`, 'binary').toString('base64'), kept as
\* the bytes that are encoded
basicCredentials(username, apiKey) == [base64of |-> username \o <<":">> \o apiKey]

\* a plausible slip: the jobName argument, when given, returned as the job
jenkinsInfoFromArgument(opt, settings, jobName) ==
  [baseUrl |-> settings.baseUrl,
   headers |-> [Authorization |-> basicCredentials(settings.username, settings.apiKey)],
   jobName |-> IF opt.jobName # undefined THEN opt.jobName ELSE jobName]

\* the returned JenkinsInfo
jenkinsInfo(opt, settings, jobName) ==
  [baseUrl |-> settings.baseUrl,
   headers |-> [Authorization |-> basicCredentials(settings.username, settings.apiKey)],
   jobName |-> jobName]

Failed(error, pr) == [ok |-> FALSE, error |-> error, info |-> NoInfo, probe |-> pr]

\* getInstance from the annotation value on: split, getInstanceConfig, reads
resolveAnnotation(opt, jenkinsAndJobName) ==
  LET parsed == parseAnnotation(jenkinsAndJobName)
      instanceConfig == getInstanceConfig(parsed.jenkinsName, config)
      pr == [annotation |-> jenkinsAndJobName, jenkinsName |-> parsed.jenkinsName,
             jobName |-> parsed.jobName, path |-> instanceConfig.path,
             at |-> instanceConfig.at, configReads |-> instanceConfig.configReads,
             nameReads |-> instanceConfig.nameReads]
  IN IF ~instanceConfig.ok
     THEN Failed(instanceConfig.error, pr)
     ELSE LET settings == readSettings(SettingsNode(config, instanceConfig.at))
              prs == [pr EXCEPT !.configReads = @ + settings.reads]
          IN IF ~settings.ok
             THEN Failed(Err("ConfigFieldMissing", settings.key, undefined, ""), prs)
             ELSE [ok |-> TRUE, error |-> NoError,
                   info |-> jenkinsInfo(opt, settings, parsed.jobName), probe |-> prs]

\* getInstance after the await: the settled lookup is a rejection
\* (rethrown), undefined or an entity
getInstanceResume(opt, settled) ==
  IF settled.status = "rejected"
  THEN Failed(Err("LookupError", "", undefined, opt.entityRef), NoProbe)
  ELSE IF settled.status = "absent"
  THEN Failed(Err("EntityNotFound", "", undefined, opt.entityRef), NoProbe)
  ELSE LET jenkinsAndJobName == getEntityAnnotationValue(settled.entity)
       IN IF AnnotationUnusable(jenkinsAndJobName)
          THEN Failed(Err("AnnotationMissing", NEW_JENKINS_ANNOTATION, undefined,
                          opt.entityRef), NoProbe)
          ELSE resolveAnnotation(opt, jenkinsAndJobName)

(***************************************************************************)
(* The catalog client (@backstage/catalog-client), by its contract, and    *)
(* the catalogs and configurations a provider is constructed with.         *)
(***************************************************************************)
Refs == {"e1", "e2"}

Opts == [entityRef : Refs, jobName : {undefined, <<"j">>}]

NoOpt == [entityRef |-> "", jobName |-> undefined]

Entity(annotations) == [annotations |-> annotations]

Found(entity) == [status |-> "found", entity |-> entity]

Absent == [status |-> "absent", entity |-> Entity(<<>>)]

Rejected == [status |-> "rejected", entity |-> Entity(<<>>)]

Unsettled == [status |-> "none", entity |-> Entity(<<>>)]

\* getEntityByName(entityRef) settles with the entity, with undefined or
\* with a rejection
getEntityByName(entityRef) == catalog[entityRef]

AnnotationValues == Strs(MaxLen) \cup {DEFAULT_JENKINS_NAME \o <<":", "a">>}

AnnotationMaps ==
  UNION {[D -> AnnotationValues] :
           D \in SUBSET {OLD_JENKINS_ANNOTATION, NEW_JENKINS_ANNOTATION}}

Slug(value) == Entity([k \in {NEW_JENKINS_ANNOTATION} |-> value])

WideCatalogs ==
  {[r \in Refs |-> IF r = "e1" THEN c1 ELSE c2] :
     c1 \in {Found(Entity(a)) : a \in AnnotationMaps}, c2 \in {Absent, Rejected}}

NarrowCatalogs ==
  {[r \in Refs |-> IF r = "e1" THEN Found(Slug(v)) ELSE Absent] :
     v \in {<<"a">>, <<"a", ":", "a">>, DEFAULT_JENKINS_NAME \o <<":", "a">>}}

ConcurrentCatalogs ==
  {[r \in Refs |-> IF r = "e1" THEN c1 ELSE c2] :
     c1 \in {Found(Slug(<<"a", ":", "a">>)),
             Found(Entity([k \in {OLD_JENKINS_ANNOTATION, NEW_JENKINS_ANNOTATION} |->
                             IF k = OLD_JENKINS_ANNOTATION THEN <<"a">>
                             ELSE <<"a", ":", "a">>])),
             Absent},
     c2 \in {Found(Slug(<<":", "a">>)), Found(Entity(<<>>)), Rejected}}

Instance(name, baseUrl, username, apiKey) ==
  [name |-> name, baseUrl |-> baseUrl, username |-> username, apiKey |-> apiKey]

Instances ==
  {Instance(<<"a">>, <<"1">>, <<"u">>, <<"k">>),
   Instance(<<"a">>, <<"2">>, <<"u">>, <<"k">>),
   [name |-> <<"a">>, baseUrl |-> <<"3">>, username |-> <<"u">>],
   Instance(DEFAULT_JENKINS_NAME, <<"1">>, <<"u">>, <<"k">>),
   Instance(DEFAULT_JENKINS_NAME, <<"2">>, <<>>, <<"k">>),
   [baseUrl |-> <<"1">>, username |-> <<"u">>, apiKey |-> <<"k">>]}

InstanceArrays(n) == UNION {[1..k -> Instances] : k \in 0..n}

FlatKeys == {"baseUrl", "username", "apiKey"}

FlatValue(key) ==
  IF key = "baseUrl" THEN <<"f">> ELSE IF key = "username" THEN <<"v">> ELSE <<"w">>

\* the 'jenkins' node with each flat field unset, empty or set
FlatNodes ==
  {[k \in D |-> IF k \in E THEN <<>> ELSE FlatValue(k)] :
     D \in SUBSET FlatKeys, E \in SUBSET FlatKeys}

FlatNone == [k \in {} |-> <<>>]

FlatFull == [k \in FlatKeys |-> FlatValue(k)]

WithInstances(node, instances) == node @@ ("instances" :> instances)

Root(jenkins) == [jenkins |-> jenkins]

RootWithoutJenkins == [backend |-> <<"b">>]

ArrayConfigs ==
  {Root(WithInstances(f, arr)) :
     f \in {FlatNone, FlatFull}, arr \in InstanceArrays(MaxInstances)}

FlatConfigs ==
  {Root(f) : f \in FlatNodes}
  \cup {Root(WithInstances(f, arr)) :
          f \in FlatNodes,
          arr \in {<<>>, <<Instance(DEFAULT_JENKINS_NAME, <<"1">>, <<"u">>, <<"k">>)>>,
                   <<Instance(<<"a">>, <<"1">>, <<"u">>, <<"k">>)>>}}

NarrowConfigs ==
  {RootWithoutJenkins,
   Root(FlatFull),
   Root([baseUrl |-> <<"f">>, username |-> <<"v">>]),
   Root(WithInstances(FlatNone, <<>>)),
   Root(WithInstances(FlatNone,
          <<Instance(<<"a">>, <<"1">>, <<"u">>, <<"k">>),
            Instance(DEFAULT_JENKINS_NAME, <<"2">>, <<"u">>, <<"k">>)>>)),
   Root(WithInstances(FlatFull, <<[name |-> <<"a">>, baseUrl |-> <<"3">>,
                                   username |-> <<"u">>]>>))}

(***************************************************************************)
(* The calls.  A call of getInstance issues its lookup (Call), the catalog *)
(* settles it (Settle), and the call runs to its end (Resume).             *)
(***************************************************************************)
CallIds == 1..NumCalls

NoCalls ==
  /\ pc = [c \in CallIds |-> "idle"]
  /\ opts = [c \in CallIds |-> NoOpt]
  /\ pending = {}
  /\ response = [c \in CallIds |-> Unsettled]
  /\ result = [c \in CallIds |-> [ok |-> FALSE, error |-> NoError, info |-> NoInfo]]
  /\ probe = [c \in CallIds |-> NoProbe]
  /\ catalogReads = [c \in CallIds |-> 0]

Init ==
  /\ \/ catalog \in WideCatalogs /\ config \in NarrowConfigs
     \/ catalog \in NarrowCatalogs /\ config \in ArrayConfigs \cup FlatConfigs
  /\ NoCalls

InitConcurrent ==
  /\ catalog \in ConcurrentCatalogs
  /\ config \in NarrowConfigs
  /\ NoCalls

\* a plausible slip: the pending lookups not told apart by their call
anyRequest(c) == CHOOSE r \in pending : TRUE

\* the lookup that call c awaits
requestOf(c) == CHOOSE r \in pending : r.call = c

\* await this.catalog.getEntityByName(opt.entityRef): the lookup is issued
Call(c, opt) ==
  /\ pc[c] = "idle"
  /\ pc' = [pc EXCEPT ![c] = "awaiting"]
  /\ opts' = [opts EXCEPT ![c] = opt]
  /\ pending' = pending \cup {[call |-> c, entityRef |-> opt.entityRef]}
  /\ catalogReads' = [catalogReads EXCEPT ![c] = @ + 1]
  /\ UNCHANGED <<catalog, config, response, result, probe>>

\* the catalog settles the lookup of call c
Settle(c) ==
  /\ pc[c] = "awaiting"
  /\ \E r \in pending : r.call = c
  /\ response' = [response EXCEPT ![c] = getEntityByName(requestOf(c).entityRef)]
  /\ pending' = pending \ {requestOf(c)}
  /\ pc' = [pc EXCEPT ![c] = "settled"]
  /\ UNCHANGED <<catalog, config, opts, result, probe, catalogReads>>

\* the call continues after the await and returns or throws
Resume(c) ==
  /\ pc[c] = "settled"
  /\ LET run == getInstanceResume(opts[c], response[c])
     IN /\ result' = [result EXCEPT ![c] =
                        [ok |-> run.ok, error |-> run.error, info |-> run.info]]
        /\ probe' = [probe EXCEPT ![c] = run.probe]
  /\ pc' = [pc EXCEPT ![c] = "done"]
  /\ UNCHANGED <<catalog, config, opts, pending, response, catalogReads>>

\* one caller: the calls of a provider one after the other are alike
Next ==
  \/ \E opt \in Opts : Call(1, opt)
  \/ Settle(1)
  \/ Resume(1)

Spec == Init /\ [][Next]_vars

\* NumCalls callers, whose lookups are pending together and settle in any order
NextConcurrent ==
  \/ \E c \in CallIds, opt \in Opts : Call(c, opt)
  \/ \E c \in CallIds : Settle(c)
  \/ \E c \in CallIds : Resume(c)

SpecConcurrent == InitConcurrent /\ [][NextConcurrent]_vars

TypeOK ==
  /\ \A c \in CallIds : pc[c] \in {"idle", "awaiting", "settled", "done"}
  /\ \A c \in CallIds : catalogReads[c] \in 0..1

(***************************************************************************)
(* What the claims speak of, read from the catalog and the configuration   *)
(* themselves.                                                             *)
(***************************************************************************)
Done(c) == pc[c] = "done"

Colons(v) == {i \in 1..Len(v) : v[i] = ":"}

HasColon(v) == Colons(v) # {}

PrefixOf(v) == SubSeq(v, 1, Min(Colons(v)) - 1)

SuffixOf(v) == SubSeq(v, Min(Colons(v)) + 1, Len(v))

\* a call whose entity was found, and the annotations of that entity
FoundEntity(c) == Done(c) /\ response[c].status = "found"

Legacy(c) == response[c].entity.annotations[OLD_JENKINS_ANNOTATION]

Current(c) == response[c].entity.annotations[NEW_JENKINS_ANNOTATION]

BothKeys(c) ==
  DOMAIN response[c].entity.annotations = {OLD_JENKINS_ANNOTATION, NEW_JENKINS_ANNOTATION}

NoUsableAnnotation(c) ==
  \A k \in DOMAIN response[c].entity.annotations :
    response[c].entity.annotations[k] = <<>>

\* the 'jenkins.instances' array of the configuration, empty when not set
ConfiguredInstances ==
  IF "instances" \in DOMAIN config["jenkins"] THEN config["jenkins"]["instances"] ELSE <<>>

EntriesNamed(name) ==
  {i \in 1..Len(ConfiguredInstances) :
     "name" \in DOMAIN ConfiguredInstances[i] /\ ConfiguredInstances[i]["name"] = name}

Unnamed ==
  {i \in 1..Len(ConfiguredInstances) :
     "name" \notin DOMAIN ConfiguredInstances[i] \/ ConfiguredInstances[i]["name"] = <<>>}

FlatPresent == \A k \in FlatKeys : k \in DOMAIN config["jenkins"]

FlatSet == \A k \in FlatKeys : k \in DOMAIN config["jenkins"] /\ config["jenkins"][k] # <<>>

\* a call that reached the resolution of the instance settings
Resolving(c) == Done(c) /\ probe[c].path # "none"

NameUnreadable == Err("ConfigFieldMissing", "name", undefined, "")

\* the name the search of 'jenkins.instances' looks for
LookedUp(c) ==
  IF probe[c].path = "default" THEN DEFAULT_JENKINS_NAME ELSE probe[c].jenkinsName

Outcome(run) == [ok |-> run.ok, error |-> run.error, info |-> run.info]

\* the call run alone against the catalog and the configuration
RunAlone(opt) == Outcome(getInstanceResume(opt, catalog[opt.entityRef]))

(***************************************************************************)
(* C1.                                                                     *)
(***************************************************************************)
\* C1, as stated: a call that reaches the resolution of the instance
\* settings takes the named-instance path if and only if the annotation
\* value contains a colon.
C1_NamedIffColon ==
  \A c \in CallIds :
    Resolving(c) =>
      /\ probe[c].path \in {"named", "default"}
      /\ probe[c].path = "named" <=> HasColon(probe[c].annotation)

\* C1, amended: a call that reaches the resolution of the instance settings
\* takes exactly one of the two paths, and it takes the named-instance path
\* if and only if the annotation value contains a colon and the prefix before
\* its first colon is neither empty nor "default".
C1_NamedIffProperPrefix ==
  \A c \in CallIds :
    Resolving(c) =>
      /\ probe[c].path \in {"named", "default"}
      /\ probe[c].path = "named" <=>
           /\ HasColon(probe[c].annotation)
           /\ PrefixOf(probe[c].annotation) \notin {<<>>, DEFAULT_JENKINS_NAME}

C1_Witness ==
  \E c \in CallIds :
    /\ Resolving(c)
    /\ HasColon(probe[c].annotation)
    /\ PrefixOf(probe[c].annotation) = DEFAULT_JENKINS_NAME
    /\ probe[c].path = "default"

(***************************************************************************)
(* C2.                                                                     *)
(***************************************************************************)
\* C2, as stated: when both annotation keys are present on the entity, the
\* value getInstance parses is the value of the legacy key, whatever the two
\* values are.
C2_LegacyAlways ==
  \A c \in CallIds :
    (FoundEntity(c) /\ BothKeys(c) /\ result[c].error.kind # "AnnotationMissing") =>
      probe[c].annotation = Legacy(c)

\* C2, amended: when both annotation keys are present on the entity, the
\* value getInstance parses is the value of the legacy key if that value is
\* not empty, and otherwise the value of the current key; when both values
\* are empty the call fails with AnnotationMissing.
C2_LegacyUnlessEmpty ==
  \A c \in CallIds :
    (FoundEntity(c) /\ BothKeys(c)) =>
      IF Legacy(c) # <<>> THEN probe[c].annotation = Legacy(c)
      ELSE IF Current(c) # <<>> THEN probe[c].annotation = Current(c)
      ELSE ~result[c].ok /\ result[c].error.kind = "AnnotationMissing"

C2_Witness ==
  \E c \in CallIds :
    /\ FoundEntity(c) /\ BothKeys(c)
    /\ Legacy(c) # <<>> /\ Current(c) # <<>> /\ Legacy(c) # Current(c)
    /\ probe[c].annotation = Legacy(c)

(***************************************************************************)
(* C3.                                                                     *)
(***************************************************************************)
\* C3, as stated: on the default path, for every configuration, an entry
\* named "default" is the settings node; otherwise the 'jenkins' node is,
\* if the three flat fields are present; otherwise the call fails with
\* NoDefaultInstance.
C3_DefaultOrderAnyConfig ==
  \A c \in CallIds :
    (Done(c) /\ probe[c].path = "default") =>
      IF EntriesNamed(DEFAULT_JENKINS_NAME) # {}
      THEN probe[c].at \in EntriesNamed(DEFAULT_JENKINS_NAME)
      ELSE IF FlatPresent THEN probe[c].at = 0
      ELSE ~result[c].ok /\ result[c].error.kind = "NoDefaultInstance"

\* C3, amended: on the default path, for every configuration whose
\* 'instances' entries all have a non-empty name, the first entry named
\* "default" is the settings node, also when the three flat fields are set;
\* otherwise the 'jenkins' node is, if its three flat fields are present and
\* not empty; otherwise the call fails with NoDefaultInstance.  When an entry
\* has no name or an empty one, the call fails with the error of the
\* configuration reader for 'name'.
C3_DefaultOrderNamedEntries ==
  \A c \in CallIds :
    (Done(c) /\ probe[c].path = "default") =>
      IF Unnamed # {}
      THEN ~result[c].ok /\ result[c].error = NameUnreadable /\ probe[c].at = -1
      ELSE IF EntriesNamed(DEFAULT_JENKINS_NAME) # {}
      THEN probe[c].at = Min(EntriesNamed(DEFAULT_JENKINS_NAME))
      ELSE IF FlatSet THEN probe[c].at = 0
      ELSE /\ ~result[c].ok
           /\ result[c].error.kind = "NoDefaultInstance"
           /\ probe[c].at = -1

C3_Witness ==
  \E c \in CallIds :
    /\ Done(c) /\ probe[c].path = "default"
    /\ Unnamed = {} /\ FlatSet
    /\ EntriesNamed(DEFAULT_JENKINS_NAME) # {}
    /\ probe[c].at = Min(EntriesNamed(DEFAULT_JENKINS_NAME))
    /\ result[c].ok

(***************************************************************************)
(* C4.                                                                     *)
(***************************************************************************)
\* C4, as stated: when the identity is present and not "default" and no
\* entry of 'instances' has that name, the call fails with
\* NamedInstanceNotFound carrying the identity, whatever the array holds.
C4_NotFoundAnyArray ==
  \A c \in CallIds :
    (Done(c) /\ probe[c].path = "named" /\ EntriesNamed(probe[c].jenkinsName) = {}) =>
      /\ ~result[c].ok
      /\ result[c].error.kind = "NamedInstanceNotFound"
      /\ result[c].error.name = probe[c].jenkinsName

\* C4, amended: when the identity is present and not "default" and no entry
\* of 'instances' has that name, the call returns no result and uses neither
\* the flat fields nor the entry named "default"; it fails with
\* NamedInstanceNotFound carrying the identity when every entry of the array
\* has a non-empty name, and with the error of the configuration reader for
\* 'name' when some entry has no name or an empty one.
C4_NotFoundNamedEntries ==
  \A c \in CallIds :
    (Done(c) /\ probe[c].path = "named" /\ EntriesNamed(probe[c].jenkinsName) = {}) =>
      /\ ~result[c].ok
      /\ result[c].info = NoInfo
      /\ probe[c].at = -1
      /\ IF Unnamed = {}
         THEN /\ result[c].error.kind = "NamedInstanceNotFound"
              /\ result[c].error.name = probe[c].jenkinsName
         ELSE result[c].error = NameUnreadable

C4_Witness ==
  \E c \in CallIds :
    /\ Done(c) /\ probe[c].path = "named"
    /\ EntriesNamed(probe[c].jenkinsName) = {}
    /\ Unnamed = {} /\ FlatSet
    /\ EntriesNamed(DEFAULT_JENKINS_NAME) # {}
    /\ result[c].error.kind = "NamedInstanceNotFound"

(***************************************************************************)
(* C5.                                                                     *)
(***************************************************************************)
FieldSet(node, key) == key \in DOMAIN node /\ node[key] # <<>>

\* C5: a JenkinsInfo is returned only from a settings node whose baseUrl,
\* username and apiKey are all non-empty strings, and is built from them;
\* when the resolved settings node has one of the three unset or empty, the
\* call fails with ConfigFieldMissing and returns no result.
C5_SettingsComplete ==
  \A c \in CallIds :
    Done(c) =>
      /\ result[c].ok =>
           /\ probe[c].at >= 0
           /\ \A k \in FlatKeys : FieldSet(SettingsNode(config, probe[c].at), k)
           /\ result[c].info.baseUrl = SettingsNode(config, probe[c].at)["baseUrl"]
           /\ result[c].info.headers.Authorization.base64of =
                SettingsNode(config, probe[c].at)["username"] \o <<":">>
                  \o SettingsNode(config, probe[c].at)["apiKey"]
      /\ (/\ probe[c].at >= 0
          /\ \E k \in FlatKeys : ~FieldSet(SettingsNode(config, probe[c].at), k)) =>
           /\ ~result[c].ok
           /\ result[c].info = NoInfo
           /\ result[c].error.kind = "ConfigFieldMissing"
           /\ result[c].error.key \in FlatKeys

C5_Witness ==
  \E c \in CallIds :
    /\ Done(c)
    /\ probe[c].at >= 1
    /\ "apiKey" \notin DOMAIN SettingsNode(config, probe[c].at)
    /\ result[c].error = Err("ConfigFieldMissing", "apiKey", undefined, "")

C7_NoInterference ==
  \A c \in CallIds :
    /\ Done(c) => result[c] = RunAlone(opts[c])
    /\ pc[c] = "settled" => response[c] = catalog[opts[c].entityRef]

C7_Witness ==
  \E c \in CallIds, d \in CallIds :
    /\ Done(c) /\ result[c].ok
    /\ pc[d] = "awaiting"
    /\ opts[d].entityRef # opts[c].entityRef
    /\ RunAlone(opts[d]) # RunAlone(opts[c])

(***************************************************************************)
(* C8.                                                                     *)
(***************************************************************************)
\* C8: a call issues one catalog lookup and no second one, and reads no
\* configuration before the lookup has settled; when the lookup rejects,
\* returns no entity, or the entity has no usable annotation, the call ends
\* with that failure without having read the configuration, whatever the
\* configuration is.
C8_LookupFirstAndOnce ==
  \A c \in CallIds :
    /\ catalogReads[c] = IF pc[c] = "idle" THEN 0 ELSE 1
    /\ pc[c] # "done" => probe[c].configReads = 0
    /\ Done(c) =>
         CASE response[c].status = "rejected" ->
                /\ result[c] = [ok |-> FALSE, info |-> NoInfo,
                                error |-> Err("LookupError", "", undefined,
                                              opts[c].entityRef)]
                /\ probe[c].configReads = 0
           [] response[c].status = "absent" ->
                /\ result[c] = [ok |-> FALSE, info |-> NoInfo,
                                error |-> Err("EntityNotFound", "", undefined,
                                              opts[c].entityRef)]
                /\ probe[c].configReads = 0
           [] OTHER ->
                IF NoUsableAnnotation(c)
                THEN /\ ~result[c].ok
                     /\ result[c].error.kind = "AnnotationMissing"
                     /\ probe[c].configReads = 0
                ELSE probe[c].configReads >= 1

C8_Witness ==
  \E c \in CallIds :
    /\ Done(c)
    /\ response[c].status = "found"
    /\ result[c].error.kind = "AnnotationMissing"
    /\ catalogReads[c] = 1
    /\ "jenkins" \notin DOMAIN config

(***************************************************************************)
(* C9.                                                                     *)
(***************************************************************************)
\* C9: two calls for the same entity that differ only in the jobName
\* argument end alike, and the job name returned is the one parsed from the
\* annotation of the entity.
C9_JobNameArgumentUnused ==
  \A c \in CallIds, d \in CallIds :
    (Done(c) /\ Done(d) /\ opts[c].entityRef = opts[d].entityRef) =>
      /\ result[c] = result[d]
      /\ result[c].ok =>
           result[c].info.jobName =
             IF HasColon(probe[c].annotation) THEN SuffixOf(probe[c].annotation)
             ELSE probe[c].annotation

C9_Witness ==
  \E c \in CallIds, d \in CallIds :
    /\ Done(c) /\ Done(d)
    /\ opts[c].entityRef = opts[d].entityRef
    /\ opts[c].jobName = undefined /\ opts[d].jobName # undefined
    /\ result[c].ok /\ result[d].ok
    /\ result[c].info.jobName # opts[d].jobName

(***************************************************************************)
(* C10.                                                                    *)
(***************************************************************************)
\* C10, as stated: when several entries of 'instances' have the name looked
\* up, the first of them in array order is returned and the name of every
\* entry of the array is read.
C10_FirstOfSeveralAnyArray ==
  \A c \in CallIds :
    (Resolving(c) /\ Cardinality(EntriesNamed(LookedUp(c))) >= 2) =>
      /\ probe[c].at = Min(EntriesNamed(LookedUp(c)))
      /\ probe[c].nameReads = Len(ConfiguredInstances)

\* C10, amended: when several entries of 'instances' have the name looked up
\* and every entry of the array has a non-empty name, the first of them in
\* array order is returned and the name of every entry of the array is read,
\* those after the first match too.  When an entry has no name or an empty
\* one, no entry is returned: the search fails at the first such entry with
\* the error of the configuration reader for 'name', and the names of the
\* entries after it are not read.
C10_FirstOfSeveralNamedEntries ==
  \A c \in CallIds :
    (Resolving(c) /\ Cardinality(EntriesNamed(LookedUp(c))) >= 2) =>
      IF Unnamed = {}
      THEN /\ probe[c].at = Min(EntriesNamed(LookedUp(c)))
           /\ probe[c].nameReads = Len(ConfiguredInstances)
      ELSE /\ probe[c].at = -1
           /\ probe[c].nameReads = Min(Unnamed)
           /\ result[c].error = NameUnreadable

C10_Witness ==
  \E c \in CallIds :
    /\ Resolving(c) /\ Unnamed = {}
    /\ Cardinality(EntriesNamed(LookedUp(c))) >= 2
    /\ probe[c].at = Min(EntriesNamed(LookedUp(c)))
    /\ ConfiguredInstances[probe[c].at] #
         ConfiguredInstances[Max(EntriesNamed(LookedUp(c)))]
    /\ Len(ConfiguredInstances) > Min(EntriesNamed(LookedUp(c)))
    /\ probe[c].nameReads = Len(ConfiguredInstances)

====
